---- MODULE Spec2Model ----
(***************************************************************************)
(* Report lifecycle of backend/reports/processor.py (ReportProcessor) and   *)
(* AQI simulator of backend/aqi/stream.py (AQIStreamSimulator), as served  *)
(* by the handlers of backend/app.py.                                      *)
(*                                                                         *)
(* Spec is the report lifecycle with one request at a time, SpecConcurrent *)
(* the status queries of several callers on the event loop, SpecAQI the    *)
(* AQI simulator, SpecCompletion the resolution of a validating record.    *)
(*                                                                         *)
(* Confidence scores are fixed-point numbers in thousandths (0.75 is 750). *)
(* Every call of the random module and of uuid4 is a nondeterministic      *)
(* choice; datetime.now() reads the variable now, advanced by Tick.        *)
(***************************************************************************)
EXTENDS Integers, Sequences, FiniteSets, TLC

VARIABLES
    reports,           \* ReportProcessor.reports: report_id -> record
    validation_queue,  \* ReportProcessor.validation_queue
    now,               \* the wall clock read by datetime.now(), in seconds
    issued,            \* history: the report_id of every submission, in order
    result,            \* the response of the latest request
    callers,           \* SpecConcurrent: the status request of each caller
    resolutions,       \* SpecConcurrent: report_id -> resolutions of its status
    overlap,           \* SpecConcurrent: two requests for one report were pending
    clock,             \* SpecAQI: datetime.now(), in hours since a Monday 00:00
    aqi                \* SpecAQI: the response of the latest AQI request

reportVars == <<reports, validation_queue, now, issued, result>>
callerVars == <<callers, resolutions, overlap>>
aqiVars == <<clock, aqi>>

vars == <<reports, validation_queue, now, issued, result,
          callers, resolutions, overlap, clock, aqi>>

----------------------------------------------------------------------------
(* Bounds of the model *)

MaxSubmits == 2        \* submissions in one run
MaxTime == 1           \* last second of the clock
NumSuffixes == 2       \* distinct values of str(uuid4())[:8]
NumCallers == 2        \* SpecConcurrent: callers querying at the same time
MaxStored == 1         \* SpecConcurrent: submissions before the callers query

----------------------------------------------------------------------------
(* Program constants *)

high == 750            \* confidence_thresholds["high"]
medium == 500          \* confidence_thresholds["medium"]
base_reward == 10
NoneTime == -1         \* verified_at = None

priority_categories == {"water", "construction"}

----------------------------------------------------------------------------
(* Requests *)

Categories == {"air", "water", "construction"}

\* confidences a scoring result carries, in thousandths; none has a 5 in the
\* third decimal, where round(x, 2) depends on the binary float
Confidences == {496, 654, 750, 960}

\* yolo_result: None, a dict without "confidence", a dict with one
YoloResults ==
    {[present |-> FALSE, has_confidence |-> FALSE, confidence |-> 0],
     [present |-> TRUE, has_confidence |-> FALSE, confidence |-> 0]}
    \cup {[present |-> TRUE, has_confidence |-> TRUE, confidence |-> c] :
            c \in Confidences}

\* the body of POST /api/report/submit (ReportSubmission)
ReportInput(c, y) ==
    [category |-> c,
     latitude |-> 286139,
     longitude |-> 772090,
     location_name |-> "Connaught Place, Delhi",
     yolo_result |-> y,
     timestamp |-> "2026-02-16T10:30:00"]

\* every scoring result with one category, and every category with the
\* scoring result at the high threshold
ReportInputs ==
    {ReportInput("construction", y) : y \in YoloResults}
    \cup {ReportInput(c, [present |-> TRUE, has_confidence |-> TRUE,
                          confidence |-> high]) : c \in Categories}

Suffixes == 1..NumSuffixes

\* the identifiers _generate_report_id can return
ReportIds == (0..MaxTime) \X Suffixes

\* "RPT-does-not-exist"
NoSuchId == <<0, 0>>

QueryIds == ReportIds \cup {NoSuchId}

\* the draws of random.random() and random.choice() in one decision
Draws == [outer : BOOLEAN, pick : 1..2, hotspot : BOOLEAN]

----------------------------------------------------------------------------
(* ReportProcessor: pure helpers *)

\* round(x, 2) on thousandths, result in thousandths
Round2(x) == ((x + 5) \div 10) * 10

Min(a, b) == IF a <= b THEN a ELSE b

\* random.randint(a, b): draw d of 0..1 picks the low end or the high end
randint(a, b, d) == a + d * (b - a)

\* "RPT-" + strftime("%Y%m%d%H%M%S") + "-" + str(uuid4())[:8]
_generate_report_id(t, u) == <<t, u>>

_get_status_message(status) ==
    CASE status = "validating" ->
            "AI validation in progress. This usually takes a few seconds."
      [] status = "verified" ->
            "Report verified! Your contribution helps monitor environmental conditions."
      [] status = "needs-review" ->
            "Report queued for expert review. This may take a few minutes."
      [] status = "rejected" ->
            "Unable to verify this report. Consider resubmitting with clearer evidence."
      [] OTHER -> "Processing your report..."

\* decision_of without the medium band: what is not high is drawn as low
decision_of_no_medium(yolo_confidence, rnd) ==
    IF yolo_confidence >= high
    THEN IF rnd.outer
         THEN <<"verified", "needs-review">>[rnd.pick]
         ELSE "needs-review"
    ELSE IF rnd.outer
         THEN <<"needs-review", "rejected">>[rnd.pick]
         ELSE "rejected"

\* lines 164-188: the band of the confidence and the decision drawn in it
decision_of(yolo_confidence, rnd) ==
    IF yolo_confidence >= high
    THEN IF rnd.outer
         THEN <<"verified", "needs-review">>[rnd.pick]
         ELSE "needs-review"
    ELSE IF yolo_confidence >= medium
    THEN "needs-review"
    ELSE IF rnd.outer
         THEN <<"needs-review", "rejected">>[rnd.pick]
         ELSE "rejected"

reason_of(yolo_confidence) ==
    IF yolo_confidence >= high
    THEN "High AI confidence. Visual indicators strongly match reported category."
    ELSE IF yolo_confidence >= medium
    THEN "Moderate AI confidence. Requires additional verification for accuracy."
    ELSE "Low AI confidence. Visual conditions unclear or ambiguous."

\* initial_status_of that keeps the decision as it is
initial_status_direct(decision) == decision

\* lines 197-201: a "verified" decision starts as "validating"
initial_status_of(decision) ==
    IF decision = "verified" THEN "validating" ELSE decision

\* the draw of random.random() < 0.3 is rnd.hotspot
_is_known_hotspot(lat, lng, rnd) == rnd.hotspot

\* the bonus without the cap
hotspot_confidence_uncapped(confidence) == confidence + 100

\* the bonus taken off
hotspot_confidence_lowered(confidence) == Min(1000, confidence - 100)

\* line 195: confidence = min(1.0, confidence + 0.1)
hotspot_confidence(confidence) == Min(1000, confidence + 100)

_make_validation_decision(category, yolo_confidence, location, rnd) ==
    LET decision == decision_of(yolo_confidence, rnd)
        hotspot == _is_known_hotspot(location[1], location[2], rnd)
        reason == IF hotspot
                  THEN reason_of(yolo_confidence)
                       \o " Location matches known environmental concern area."
                  ELSE reason_of(yolo_confidence)
        confidence == IF hotspot
                      THEN hotspot_confidence(yolo_confidence)
                      ELSE yolo_confidence
    IN  [status |-> initial_status_of(decision),
         reason |-> reason,
         confidence |-> Round2(confidence)]

\* _simulate_validation_completion with > in the place of >=
_simulate_validation_completion_strict(report, pick) ==
    IF report.confidence_score > 750 THEN "verified"
    ELSE IF report.confidence_score > 500
         THEN <<"verified", "needs-review">>[pick]
         ELSE <<"needs-review", "rejected">>[pick]

\* lines 215-228; pick is the draw of random.choice
_simulate_validation_completion(report, pick) ==
    IF report.confidence_score >= 750 THEN "verified"
    ELSE IF report.confidence_score >= 500
         THEN <<"verified", "needs-review">>[pick]
         ELSE <<"needs-review", "rejected">>[pick]

\* _calculate_reward with the confidence bonus granted from 0.75
_calculate_reward_low_bar(report, location_draw) ==
    LET confidence_bonus == IF report.confidence_score >= 750 THEN 5 ELSE 0
        category_bonus == IF report.category \in priority_categories THEN 5 ELSE 0
        location_bonus == IF location_draw THEN 5 ELSE 0
    IN  base_reward + confidence_bonus + category_bonus + location_bonus

_calculate_reward(report, location_draw) ==
    LET confidence_bonus == IF report.confidence_score >= 800 THEN 5 ELSE 0
        category_bonus == IF report.category \in priority_categories THEN 5 ELSE 0
        location_bonus == IF location_draw THEN 5 ELSE 0
    IN  base_reward + confidence_bonus + category_bonus + location_bonus

_estimate_verification_time(status, d) ==
    IF status = "verified" THEN randint(3, 8, d)
    ELSE IF status = "needs-review" THEN randint(10, 30, d)
    ELSE randint(5, 15, d)

----------------------------------------------------------------------------
(* ReportProcessor.process_submission *)

\* yolo_confidence_of with a default of 0.5 for a missing confidence
yolo_confidence_of_half(report_data) ==
    IF report_data.yolo_result.present /\ report_data.yolo_result.has_confidence
    THEN report_data.yolo_result.confidence
    ELSE 500

\* lines 56-59: a falsy yolo_result (None) or one without "confidence" is 0.0
yolo_confidence_of(report_data) ==
    IF report_data.yolo_result.present /\ report_data.yolo_result.has_confidence
    THEN report_data.yolo_result.confidence
    ELSE 0

\* store_report that keeps the new record only
store_report_alone(store, report_id, report_record) ==
    [k \in {report_id} |-> report_record]

\* line 85: self.reports[report_id] = report_record
store_report(store, report_id, report_record) ==
    [k \in DOMAIN store \cup {report_id} |->
        IF k = report_id THEN report_record ELSE store[k]]

process_submission(report_data, u, rnd, d) ==
    LET report_id == _generate_report_id(now, u)
        yolo_confidence == yolo_confidence_of(report_data)
        validation_decision ==
            _make_validation_decision(
                report_data.category, yolo_confidence,
                <<report_data.latitude, report_data.longitude>>, rnd)
        report_record ==
            [report_id |-> report_id,
             category |-> report_data.category,
             latitude |-> report_data.latitude,
             longitude |-> report_data.longitude,
             location_name |-> report_data.location_name,
             yolo_result |-> report_data.yolo_result,
             submitted_at |-> report_data.timestamp,
             validation_status |-> validation_decision.status,
             validation_reason |-> validation_decision.reason,
             confidence_score |-> validation_decision.confidence,
             verified_at |-> NoneTime,
             reward_coins |-> 0]
    IN  /\ reports' = store_report(reports, report_id, report_record)
        /\ validation_queue' =
              IF validation_decision.status = "needs-review"
              THEN Append(validation_queue, report_id)
              ELSE validation_queue
        /\ issued' = Append(issued, report_id)
        /\ result' =
              [op |-> "submit",
               status_code |-> 200,
               body |->
                  [report_id |-> report_id,
                   status |-> "submitted",
                   validation_status |-> validation_decision.status,
                   estimated_verification_time |->
                      _estimate_verification_time(validation_decision.status, d),
                   message |-> _get_status_message(validation_decision.status)]]

----------------------------------------------------------------------------
(* ReportProcessor.get_status and its handler get_report_status *)

\* get_status_progress that does not write the new status into the record
get_status_progress_unsaved(report, pick) ==
    IF report.validation_status = "validating"
    THEN [status |-> _simulate_validation_completion(report, pick),
          report |-> report]
    ELSE [status |-> report.validation_status, report |-> report]

\* lines 119-124: the status after the progression, and the record holding it
get_status_progress(report, pick) ==
    IF report.validation_status = "validating"
    THEN LET status == _simulate_validation_completion(report, pick)
         IN  [status |-> status,
              report |-> [report EXCEPT !.validation_status = status]]
    ELSE [status |-> report.validation_status, report |-> report]

\* get_status_reward without the test of the status
get_status_reward_always(status, report, location_draw, t) ==
    LET reward == _calculate_reward(report, location_draw)
    IN  [reward |-> reward,
         report |-> [report EXCEPT !.reward_coins = reward,
                                   !.verified_at = t]]

\* lines 126-131: the reward, and the record after it is written
get_status_reward(status, report, location_draw, t) ==
    IF status = "verified"
    THEN LET reward == _calculate_reward(report, location_draw)
         IN  [reward |-> reward,
              report |-> [report EXCEPT !.reward_coins = reward,
                                        !.verified_at = t]]
    ELSE [reward |-> 0, report |-> report]

\* get_report_status_code without the ValueError clause
get_report_status_code_500(exception) == 500

\* app.py get_report_status: except ValueError -> 404, except Exception -> 500
get_report_status_code(exception) ==
    IF exception = "ValueError" THEN 404 ELSE 500

get_status(report_id, pick, location_draw) ==
    IF report_id \notin DOMAIN reports
    THEN \* raise ValueError
         /\ result' = [op |-> "get_status",
                       arg |-> report_id,
                       status_code |-> get_report_status_code("ValueError"),
                       body |-> [detail |-> "Report not found"]]
         /\ UNCHANGED <<reports, validation_queue, issued>>
    ELSE
    LET progressed == get_status_progress(reports[report_id], pick)
        status == progressed.status
        rewarded == get_status_reward(status, progressed.report,
                                      location_draw, now)
        reward == rewarded.reward
        report == rewarded.report
    IN  /\ reports' = [reports EXCEPT ![report_id] = report]
        /\ result' =
              [op |-> "get_status",
               arg |-> report_id,
               status_code |-> 200,
               body |->
                  [report_id |-> report_id,
                   status |-> status,
                   category |-> report.category,
                   location |-> report.location_name,
                   submitted_at |-> report.submitted_at,
                   verified_at |-> report.verified_at,
                   confidence_score |-> report.confidence_score,
                   validation_reason |-> report.validation_reason,
                   reward_coins |-> reward,
                   message |-> _get_status_message(status)]]
        /\ UNCHANGED <<validation_queue, issued>>

----------------------------------------------------------------------------
(* Callers of GET /api/report/status/{report_id} *)

Callers == 1..NumCallers

\* a caller that has sent no request
IdleCaller == [phase |-> "idle", target |-> NoSuchId,
               status |-> "none", observed |-> "none"]

----------------------------------------------------------------------------
(* Specification *)

\* ReportProcessor.__init__
ReportInit ==
    /\ reports = <<>>
    /\ validation_queue = <<>>
    /\ now = 0
    /\ issued = <<>>
    /\ result = [op |-> "none"]

\* no caller has sent a request
CallersInit ==
    /\ callers = [c \in Callers |-> IdleCaller]
    /\ resolutions = <<>>
    /\ overlap = FALSE

\* no AQI request was made
AqiIdle ==
    /\ clock = 0
    /\ aqi = [op |-> "none"]

Init == ReportInit /\ CallersInit /\ AqiIdle

\* POST /api/report/submit
Submit ==
    /\ Len(issued) < MaxSubmits
    /\ \E report_data \in ReportInputs, u \in Suffixes, rnd \in Draws, d \in 0..1 :
          process_submission(report_data, u, rnd, d)
    /\ UNCHANGED now
    /\ UNCHANGED <<callerVars, aqiVars>>

\* GET /api/report/status/{report_id}
GetStatus ==
    /\ \E report_id \in QueryIds, pick \in 1..2, location_draw \in BOOLEAN :
          get_status(report_id, pick, location_draw)
    /\ UNCHANGED now
    /\ UNCHANGED <<callerVars, aqiVars>>

\* time passes
Tick ==
    /\ now < MaxTime
    /\ now' = now + 1
    /\ UNCHANGED <<reports, validation_queue, issued, result>>
    /\ UNCHANGED <<callerVars, aqiVars>>

Next == Submit \/ GetStatus \/ Tick

Spec == Init /\ [][Next]_vars

----------------------------------------------------------------------------
(* Concurrent status queries: every handler of app.py is an "async def"    *)
(* without an await, so the event loop runs one handler at a time, from    *)
(* its first line to its return.  A query is modelled in two steps, the    *)
(* read of the stored status (processor.py line 119) and the rest, to show *)
(* what the event loop excludes.                                           *)

\* the handlers run in threads: nothing keeps two of them apart
EventLoopFree_threads(cs) == TRUE

\* no handler is between its first line and its return
EventLoopFree(cs) == \A c \in DOMAIN cs : cs[c].phase # "running"

\* the reports are submitted before the callers send their queries
StoreReport ==
    /\ Len(issued) < MaxStored
    /\ \A c \in Callers : callers[c].phase = "idle"
    /\ EventLoopFree(callers)
    /\ \E report_data \in ReportInputs, u \in Suffixes, rnd \in Draws, d \in 0..1 :
          process_submission(report_data, u, rnd, d)
    /\ UNCHANGED <<now, callerVars, aqiVars>>

\* caller c sends GET /api/report/status/{report_id}; every identifier that
\* is no key of reports is answered as NoSuchId is
Request(c) ==
    /\ callers[c].phase = "idle"
    /\ \E report_id \in DOMAIN reports \cup {NoSuchId} :
          /\ callers' = [callers EXCEPT ![c] =
                            [phase |-> "waiting", target |-> report_id,
                             status |-> "none", observed |-> "none"]]
          /\ overlap' = (overlap \/ \E o \in Callers \ {c} :
                                       /\ callers[o].phase = "waiting"
                                       /\ callers[o].target = report_id)
    /\ UNCHANGED <<reportVars, resolutions, aqiVars>>

\* get_status, lines 112-119: the handler of c starts, fails on an unknown
\* identifier and else reads the stored status
Begin(c) ==
    /\ callers[c].phase = "waiting"
    /\ EventLoopFree(callers)
    /\ LET report_id == callers[c].target
       IN  callers' = [callers EXCEPT ![c] =
             IF report_id \notin DOMAIN reports
             THEN [@ EXCEPT !.phase = "done",
                            !.observed = "ReportNotFound"]
             ELSE [@ EXCEPT !.phase = "running",
                            !.status = reports[report_id].validation_status]]
    /\ UNCHANGED <<reportVars, resolutions, overlap, aqiVars>>

\* get_status, lines 121-144: the handler of c resolves a status it read as
\* validating, writes the reward and returns
Finish(c) ==
    /\ callers[c].phase = "running"
    /\ \E pick \in 1..2, location_draw \in BOOLEAN :
          LET report_id == callers[c].target
              read == callers[c].status
              report == reports[report_id]
              progressed ==
                  get_status_progress(
                      [report EXCEPT !.validation_status = read], pick)
              status == progressed.status
              written == IF read = "validating" THEN progressed.report
                         ELSE report
              rewarded == get_status_reward(status, written, location_draw, now)
          IN  /\ reports' = [reports EXCEPT ![report_id] = rewarded.report]
              /\ resolutions' =
                    IF read = "validating"
                    THEN [k \in DOMAIN resolutions \cup {report_id} |->
                            IF k = report_id
                            THEN (IF k \in DOMAIN resolutions
                                  THEN resolutions[k] + 1 ELSE 1)
                            ELSE resolutions[k]]
                    ELSE resolutions
              /\ callers' = [callers EXCEPT ![c] =
                                [@ EXCEPT !.phase = "done",
                                          !.observed = status]]
    /\ UNCHANGED <<validation_queue, now, issued, result, overlap, aqiVars>>

NextConcurrent ==
    \/ StoreReport
    \/ Tick
    \/ \E c \in Callers : Request(c)
    \/ \E c \in Callers : Begin(c)
    \/ \E c \in Callers : Finish(c)

SpecConcurrent == Init /\ [][NextConcurrent]_vars

----------------------------------------------------------------------------
(* The resolution of a validating record on every stored confidence.  A    *)
(* record that process_submission stores as validating has a confidence of *)
(* 0.75 or more, so Spec reaches the first branch of                       *)
(* _simulate_validation_completion only; here lines 119-124 of get_status  *)
(* are applied to a validating record of every confidence round(x, 2) can  *)
(* return in [0, 1].                                                       *)

StoredConfidences == {10 * k : k \in 0..100}

\* a record as process_submission builds it, validating, of confidence c
ValidatingRecord(c) ==
    [report_id |-> NoSuchId,
     category |-> "construction",
     latitude |-> 286139,
     longitude |-> 772090,
     location_name |-> "Connaught Place, Delhi",
     yolo_result |-> [present |-> TRUE, has_confidence |-> TRUE,
                      confidence |-> c],
     submitted_at |-> "2026-02-16T10:30:00",
     validation_status |-> "validating",
     validation_reason |-> reason_of(c),
     confidence_score |-> c,
     verified_at |-> NoneTime,
     reward_coins |-> 0]

\* get_status, lines 119-124, on such a record
ResolveValidating ==
    /\ \E c \in StoredConfidences, pick \in 1..2 :
          LET progressed == get_status_progress(ValidatingRecord(c), pick)
          IN  result' = [op |-> "resolve",
                         arg |-> c,
                         status |-> progressed.status,
                         stored |-> progressed.report.validation_status]
    /\ UNCHANGED <<reports, validation_queue, now, issued>>
    /\ UNCHANGED <<callerVars, aqiVars>>

NextCompletion == ResolveValidating

SpecCompletion == Init /\ [][NextCompletion]_vars

----------------------------------------------------------------------------
(* AQI simulator, backend/aqi/stream.py.  AQI values are fixed-point       *)
(* numbers in hundredths (250.0 is 25000), seasonal factors in hundredths, *)
(* the weekend factor in tenths.  A timestamp counts the hours since a     *)
(* Monday 00:00, so timestamp % 24 is its hour and (timestamp \div 24) % 7 *)
(* its weekday() (Monday is 0, Sunday is 6).  lat, lng, pm25, pm10 and     *)
(* description take no part in any decision and are left out.              *)

\* self.cities, in the insertion order of the dictionary
cities == <<
    [name |-> "Delhi",     baseline_aqi |-> 250, variance |-> 50, seasonal_factor |-> 130],
    [name |-> "Mumbai",    baseline_aqi |-> 150, variance |-> 40, seasonal_factor |-> 110],
    [name |-> "Bangalore", baseline_aqi |-> 120, variance |-> 30, seasonal_factor |-> 105],
    [name |-> "Chennai",   baseline_aqi |-> 110, variance |-> 35, seasonal_factor |-> 110],
    [name |-> "Kolkata",   baseline_aqi |-> 180, variance |-> 45, seasonal_factor |-> 120],
    [name |-> "Hyderabad", baseline_aqi |-> 130, variance |-> 35, seasonal_factor |-> 105],
    [name |-> "Pune",      baseline_aqi |-> 140, variance |-> 38, seasonal_factor |-> 110],
    [name |-> "Ahmedabad", baseline_aqi |-> 160, variance |-> 42, seasonal_factor |-> 115],
    [name |-> "Lucknow",   baseline_aqi |-> 200, variance |-> 48, seasonal_factor |-> 125],
    [name |-> "Jaipur",    baseline_aqi |-> 170, variance |-> 40, seasonal_factor |-> 120] >>

CityNames == {cities[i].name : i \in DOMAIN cities}

\* position of a configured city in self.cities
CityIndex(name) == CHOOSE i \in DOMAIN cities : cities[i].name = name

\* the city parameter of a request: every configured city, a city that is
\* not configured and a configured one in another case
CityQueries == CityNames \cup {"Atlantis", "delhi"}

\* the range parameter of GET /api/aqi/history
RangeQueries == {"24h", "7d", "30m"}

\* datetime.now() of an AQI request: Monday 00:00 (the day before is a
\* Sunday), Monday 09:00 and Wednesday 20:00 (the two traffic peaks),
\* Sunday 12:00 and Sunday 23:00, all in the second week
ClockSamples == {168, 177, 236, 324, 335}

\* random.gauss(0, variance * 0.3): a draw is any real number, so the model
\* keeps no draw, small draws of either sign and draws that carry the sum
\* past either end of the valid range, in hundredths
NoiseValues == <<0, 500, -500, 20000, -20000>>

\* the state of the random generator: the draws of one request walk through
\* NoiseValues from start in steps of step
NoisePatterns == [start : 0..(Len(NoiseValues) - 1), step : 0..2]

\* the draw after k earlier draws of the request
gauss(p, k) == NoiseValues[((p.start + k * p.step) % Len(NoiseValues)) + 1]

Max(a, b) == IF a >= b THEN a ELSE b

\* int(x) of a number in hundredths: truncation towards zero
int(x) == IF x >= 0 THEN x \div 100 ELSE -((-x) \div 100)

\* morning_peak + evening_peak for every hour 0..23:
\* exp(-((hour - 9) ** 2) / 8) * 30 + exp(-((hour - 20) ** 2) / 8) * 35
diurnal_table == <<0, 1, 7, 33, 132, 406, 974, 1820, 2647, 3000, 2648, 1820,
                   975, 414, 171, 187, 480, 1137, 2123, 3089, 3500, 3089,
                   2123, 1136>>

diurnal_factor(hour) == diurnal_table[hour + 1]

weekend_factor(day_of_week) == IF day_of_week = 6 THEN 8 ELSE 10

\* the sum is returned as it is
valid_range_open(x) == x

\* max(0, min(500, aqi))
valid_range(x) == Max(0, Min(50000, x))

_calculate_realistic_aqi(city_data, timestamp, noise) ==
    LET baseline == city_data.baseline_aqi
        seasonal_factor == city_data.seasonal_factor
        hour == timestamp % 24
        day_of_week == (timestamp \div 24) % 7
        x == (baseline * seasonal_factor * weekend_factor(day_of_week)) \div 10
               + diurnal_factor(hour) + noise
    IN  valid_range(x)

\* aqi < 50 in the place of aqi <= 50, and so on
_get_severity_strict(x) ==
    IF x < 5000 THEN "good"
    ELSE IF x < 10000 THEN "moderate"
    ELSE IF x < 15000 THEN "unhealthy-sensitive"
    ELSE IF x < 20000 THEN "unhealthy"
    ELSE IF x < 30000 THEN "very-unhealthy"
    ELSE "hazardous"

_get_severity(x) ==
    IF x <= 5000 THEN "good"
    ELSE IF x <= 10000 THEN "moderate"
    ELSE IF x <= 15000 THEN "unhealthy-sensitive"
    ELSE IF x <= 20000 THEN "unhealthy"
    ELSE IF x <= 30000 THEN "very-unhealthy"
    ELSE "hazardous"

\* a method of the simulator returns a value or raises ValueError
Returned(value) == [raised |-> "none", detail |-> "", value |-> value]
Raised(detail) == [raised |-> "ValueError", detail |-> detail, value |-> <<>>]

\* get_current; p is the state of the random generator, k the draws made
\* before the call
get_current(city, current_time, p, k) ==
    IF city \notin CityNames
    THEN Raised("City not found")
    ELSE LET city_data == cities[CityIndex(city)]
             x == _calculate_realistic_aqi(city_data, current_time, gauss(p, k))
         IN  Returned([city |-> city, aqi |-> int(x),
                       timestamp |-> current_time,
                       severity |-> _get_severity(x)])

\* range(n, 0, -1): n, ..., 1
range_down_exclusive(n) == [i \in 1..n |-> n + 1 - i]

\* range(n, -1, -1): n, ..., 0
range_down(n) == [i \in 1..(n + 1) |-> n + 1 - i]

\* strftime("%H:%M") keeps the time of day, strftime("%b %d") the day
strftime_HM(timestamp) == timestamp % 24
strftime_bd(timestamp) == timestamp \div 24

get_history(city, time_range, current_time, p, k) ==
    IF city \notin CityNames
    THEN Raised("City not found")
    ELSE LET city_data == cities[CityIndex(city)]
         IN  IF time_range = "24h"
             THEN Returned(
                    [i \in DOMAIN range_down(24) |->
                       LET hours_ago == range_down(24)[i]
                           timestamp == current_time - hours_ago
                           x == _calculate_realistic_aqi(city_data, timestamp,
                                                         gauss(p, k + i - 1))
                       IN  [time |-> strftime_HM(timestamp), aqi |-> int(x)]])
             ELSE IF time_range = "7d"
             THEN Returned(
                    [i \in DOMAIN range_down(7) |->
                       LET days_ago == range_down(7)[i]
                           timestamp == current_time - 24 * days_ago
                           noon_time == (timestamp \div 24) * 24 + 12
                           x == _calculate_realistic_aqi(city_data, noon_time,
                                                         gauss(p, k + i - 1))
                       IN  [time |-> strftime_bd(timestamp), aqi |-> int(x)]])
             ELSE Raised("Invalid time range")

\* an ascending sort that is reversed afterwards: x goes before its equals
sort_position_reversed(sorted, x) ==
    Cardinality({i \in DOMAIN sorted : sorted[i].aqi > x.aqi})

\* list.sort(key=aqi, reverse=True) is stable: x goes behind every element
\* that is not smaller
sort_position(sorted, x) ==
    Cardinality({i \in DOMAIN sorted : sorted[i].aqi >= x.aqi})

RECURSIVE sort_reverse(_)
sort_reverse(cities_data) ==
    IF Len(cities_data) = 0 THEN <<>>
    ELSE LET sorted == sort_reverse(SubSeq(cities_data, 1, Len(cities_data) - 1))
             x == cities_data[Len(cities_data)]
             n == sort_position(sorted, x)
         IN  SubSeq(sorted, 1, n) \o <<x>> \o SubSeq(sorted, n + 1, Len(sorted))

\* the list of get_all_cities before it is sorted
cities_data_of(current_time, p, k) ==
    [i \in DOMAIN cities |->
       LET x == _calculate_realistic_aqi(cities[i], current_time,
                                         gauss(p, k + i - 1))
       IN  [name |-> cities[i].name, aqi |-> int(x),
            severity |-> _get_severity(x)]]

get_all_cities(current_time, p, k) ==
    Returned(sort_reverse(cities_data_of(current_time, p, k)))

\* get_insights without the text and the average, which follow from the
\* fields kept
get_insights(city, current_time, p) ==
    IF city \notin CityNames
    THEN Raised("City not found")
    ELSE LET current == get_current(city, current_time, p, 0).value
             history_24h == get_history(city, "24h", current_time, p, 1).value
             trend == IF history_24h[Len(history_24h)].aqi > history_24h[1].aqi
                      THEN "increasing" ELSE "decreasing"
             all_cities == get_all_cities(current_time, p,
                                          1 + Len(history_24h)).value
             rank == CHOOSE i \in DOMAIN all_cities : all_cities[i].name = city
         IN  Returned([city |-> city, trend |-> trend, rank |-> rank,
                       total_cities |-> Len(all_cities)])

\* every exception is answered as a server error
aqi_status_code_500(outcome) ==
    IF outcome.raised = "none" THEN 200 ELSE 500

\* except ValueError: 404 in get_current_aqi, get_aqi_history and
\* get_aqi_insights
aqi_status_code(outcome) ==
    IF outcome.raised = "none" THEN 200
    ELSE IF outcome.raised = "ValueError" THEN 404
    ELSE 500

\* get_cities_aqi has no clause for ValueError
cities_status_code(outcome) ==
    IF outcome.raised = "none" THEN 200 ELSE 500

\* the response of a handler: the value returned or the detail of the
\* HTTPException
response(op, args, p, status_code, outcome) ==
    [op |-> op, args |-> args, noise |-> p, status_code |-> status_code,
     body |-> IF outcome.raised = "none" THEN outcome.value
              ELSE [detail |-> outcome.detail]]

\* the AQI values _get_severity is applied to: both ends of the valid range
\* and every breakpoint with its neighbours
SeveritySamples == {0, 4999, 5000, 5001, 9999, 10000, 10001, 14999, 15000,
                    15001, 19999, 20000, 20001, 29999, 30000, 30001, 50000}

----------------------------------------------------------------------------
(* Specification of the AQI endpoints *)

\* the simulator keeps nothing between two requests: aqi holds the response
\* of the request in progress until it is delivered
AqiInit ==
    /\ clock = 168
    /\ aqi = [op |-> "none"]

InitAQI == ReportInit /\ CallersInit /\ AqiInit

\* GET /api/aqi/current
GetCurrentAqi ==
    /\ aqi.op = "none"
    /\ \E city \in CityQueries, p \in NoisePatterns :
          LET outcome == get_current(city, clock, p, 0)
          IN  aqi' = response("current", <<city>>, p,
                              aqi_status_code(outcome), outcome)
    /\ UNCHANGED <<clock, reportVars, callerVars>>

\* GET /api/aqi/history
GetAqiHistory ==
    /\ aqi.op = "none"
    /\ \E city \in CityQueries, range \in RangeQueries, p \in NoisePatterns :
          LET outcome == get_history(city, range, clock, p, 0)
          IN  aqi' = response("history", <<city, range>>, p,
                              aqi_status_code(outcome), outcome)
    /\ UNCHANGED <<clock, reportVars, callerVars>>

\* GET /api/cities
GetCitiesAqi ==
    /\ aqi.op = "none"
    /\ \E p \in NoisePatterns :
          LET outcome == get_all_cities(clock, p, 0)
          IN  aqi' = response("cities", <<>>, p,
                              cities_status_code(outcome), outcome)
    /\ UNCHANGED <<clock, reportVars, callerVars>>

\* GET /api/insights/aqi
GetAqiInsights ==
    /\ aqi.op = "none"
    /\ \E city \in CityQueries, p \in NoisePatterns :
          LET outcome == get_insights(city, clock, p)
          IN  aqi' = response("insights", <<city>>, p,
                              aqi_status_code(outcome), outcome)
    /\ UNCHANGED <<clock, reportVars, callerVars>>

\* _get_severity applied to two AQI values
GetSeverity ==
    /\ aqi.op = "none"
    /\ \E a \in SeveritySamples, b \in SeveritySamples :
          aqi' = [op |-> "severity", args |-> <<a, b>>,
                  body |-> <<_get_severity(a), _get_severity(b)>>]
    /\ UNCHANGED <<clock, reportVars, callerVars>>

\* the response is sent and the next request can be served
Deliver ==
    /\ aqi.op # "none"
    /\ aqi' = [op |-> "none"]
    /\ UNCHANGED <<clock, reportVars, callerVars>>

\* time passes between two requests
AqiTick ==
    /\ aqi.op = "none"
    /\ \E t \in ClockSamples : t > clock /\ clock' = t
    /\ UNCHANGED <<aqi, reportVars, callerVars>>

NextAQI ==
    \/ GetCurrentAqi
    \/ GetAqiHistory
    \/ GetCitiesAqi
    \/ GetAqiInsights
    \/ GetSeverity
    \/ Deliver
    \/ AqiTick

SpecAQI == InitAQI /\ [][NextAQI]_vars

----------------------------------------------------------------------------
(* Properties of the report lifecycle *)

Resolved == {"verified", "needs-review", "rejected"}

IssuedIds == {issued[i] : i \in 1..Len(issued)}

\* the latest request was a status query that succeeded
GotStatus == result.op = "get_status" /\ result.status_code = 200

\* the latest request was a submission
GotSubmit == result.op = "submit"

\* C1: once the stored status of a report is verified, needs-review or
\* rejected, no step changes it, and a status query on it returns it.
C1_ResolvedIsTerminal ==
    [][\A id \in DOMAIN reports :
          reports[id].validation_status \in Resolved =>
             /\ id \in DOMAIN reports'
             /\ reports'[id].validation_status = reports[id].validation_status
             /\ (result'.op = "get_status" /\ result'.arg = id) =>
                   /\ result'.status_code = 200
                   /\ result'.body.status = reports[id].validation_status]_vars

\* a status query alone never changes a resolved status: C1 restricted to
\* the steps that are no submission
ResolvedKeptByQueries ==
    [][issued' = issued =>
          \A id \in DOMAIN reports :
             reports[id].validation_status \in Resolved =>
                reports'[id].validation_status = reports[id].validation_status]_vars

\* C2: after a successful status query the stored status of the report is
\* resolved, never validating, and is the status the query returned.
C2_QueryResolvesValidating ==
    GotStatus =>
       /\ reports[result.arg].validation_status \in Resolved
       /\ result.body.status = reports[result.arg].validation_status

\* a report submitted as validating was queried and its record is verified
C2_Witness ==
    /\ GotStatus
    /\ result.body.status = "verified"
    /\ reports[result.arg].validation_status = "verified"
    /\ reports[result.arg].confidence_score = 750

\* C3: once a report is verified and its reward computed, every later status
\* query returns that reward and leaves the stored reward unchanged.
C3_RewardPersistedOnce ==
    [][\A id \in DOMAIN reports :
          (/\ reports[id].validation_status = "verified"
           /\ issued' = issued
           /\ result'.op = "get_status"
           /\ result'.arg = id) =>
             /\ result'.body.reward_coins = reports[id].reward_coins
             /\ reports'[id].reward_coins = reports[id].reward_coins]_vars

\* C4: the verification timestamp is null until the status is verified, is
\* set by the query that makes it verified, and no later query changes it.
C4_VerifiedAtSetOnce ==
    [][\A id \in DOMAIN reports :
          issued' = issued =>
             /\ reports[id].validation_status # "verified" =>
                   reports[id].verified_at = NoneTime
             /\ (reports[id].validation_status # "verified"
                 /\ reports'[id].validation_status = "verified") =>
                   reports'[id].verified_at # NoneTime
             /\ reports[id].validation_status = "verified" =>
                   reports'[id].verified_at = reports[id].verified_at]_vars

\* C5: a status query returns reward 0 unless the status is verified, and
\* then 10, plus 5 for a stored confidence of 0.8 or more, plus 5 for a
\* priority category, plus an optional 5: one of 10, 15, 20, 25.
C5_RewardFormula ==
    GotStatus =>
       LET body == result.body
           fixed == 10
                    + (IF body.confidence_score >= 800 THEN 5 ELSE 0)
                    + (IF body.category \in {"water", "construction"}
                       THEN 5 ELSE 0)
       IN  IF body.status = "verified"
           THEN /\ body.reward_coins \in {fixed, fixed + 5}
                /\ body.reward_coins \in {10, 15, 20, 25}
                /\ body.reward_coins >= 10
           ELSE body.reward_coins = 0

\* a verified report of stored confidence 0.75, below the bonus, in a
\* priority category, paid with the optional bonus
C5_Witness ==
    /\ GotStatus
    /\ result.body.status = "verified"
    /\ result.body.confidence_score = 750
    /\ result.body.category = "construction"
    /\ result.body.reward_coins = 20

\* C6: every identifier a submission returned stays in the collection, and
\* a status query on it succeeds and echoes it.
C6_ReportsNeverDeleted ==
    /\ \A id \in IssuedIds :
          id \in DOMAIN reports /\ reports[id].report_id = id
    /\ (result.op = "get_status" /\ result.arg \in IssuedIds) =>
          result.status_code = 200 /\ result.body.report_id = result.arg

\* two reports were submitted and then the first one was queried
C6_Witness ==
    /\ Len(issued) = 2
    /\ issued[1] # issued[2]
    /\ GotStatus
    /\ result.arg = issued[1]

\* C7: no two submissions receive the same identifier.
C7_IdentifiersUnique ==
    \A i, j \in 1..Len(issued) : i # j => issued[i] # issued[j]

\* C8: a status query on an identifier no submission returned fails with
\* 404 and leaves the collection and the queue unchanged.
C8_UnknownIdNotFound ==
    [][(result'.op = "get_status" /\ result'.arg \notin IssuedIds) =>
          /\ result'.status_code = 404
          /\ reports' = reports
          /\ validation_queue' = validation_queue]_vars

\* a query failed while the collection and the queue held a report
C8_Witness ==
    /\ result.op = "get_status"
    /\ result.arg \notin IssuedIds
    /\ result.status_code = 404
    /\ reports # <<>>
    /\ validation_queue # <<>>

HighConfidenceNeverRejected ==
    \A id \in DOMAIN reports :
       reports[id].confidence_score >= 750 =>
          /\ reports[id].validation_status # "rejected"
          /\ (GotStatus /\ result.arg = id) =>
                reports[id].validation_status \in {"verified", "needs-review"}

\* C10: a submission whose scoring confidence is 0.75 or more is answered
\* with initial status validating or needs-review.
C10_HighBandInitialStatus ==
    GotSubmit =>
       LET report == reports[result.body.report_id]
       IN  yolo_confidence_of(report) >= 750 =>
              /\ result.body.validation_status \in {"validating", "needs-review"}
              /\ report.validation_status = result.body.validation_status

\* a high-band submission took the verified path and is stored as validating
C10_Witness ==
    /\ GotSubmit
    /\ yolo_confidence_of(reports[result.body.report_id]) = 960
    /\ result.body.validation_status = "validating"

\* C11: a submission in the medium band (0.50 <= c < 0.75) starts as
\* needs-review, one in the low band (c < 0.50) as needs-review or rejected;
\* the band is that of the confidence supplied, not of the stored one.
C11_MediumAndLowBands ==
    GotSubmit =>
       LET report == reports[result.body.report_id]
           c == yolo_confidence_of(report)
       IN  /\ (c >= 500 /\ c < 750) =>
                 result.body.validation_status = "needs-review"
           /\ c < 500 =>
                 result.body.validation_status \in {"needs-review", "rejected"}
           /\ c < 750 => report.validation_status = result.body.validation_status

\* a medium-band submission that the hotspot bonus lifts to a stored
\* confidence of 0.75 and that starts as needs-review all the same
C11_Witness ==
    /\ GotSubmit
    /\ yolo_confidence_of(reports[result.body.report_id]) = 654
    /\ reports[result.body.report_id].confidence_score = 750
    /\ result.body.validation_status = "needs-review"

\* C13: the estimated verification time of a submission is 3 to 8 seconds
\* when the initial status is validating, 10 to 30 for needs-review, 5 to 15
\* otherwise.
C13_EstimatedTimeBands ==
    GotSubmit =>
       LET t == result.body.estimated_verification_time
           status == result.body.validation_status
       IN  IF status = "validating" THEN t \in 3..8
           ELSE IF status = "needs-review" THEN t \in 10..30
           ELSE t \in 5..15

\* C14: a submission without a scoring result, or with one that has no
\* confidence, is answered 200 "submitted" and stored as a low-band report of
\* confidence 0.0: needs-review or rejected.
C14_MissingScoringResult ==
    GotSubmit =>
       LET report == reports[result.body.report_id]
       IN  ~(report.yolo_result.present /\ report.yolo_result.has_confidence) =>
              /\ result.status_code = 200
              /\ result.body.status = "submitted"
              /\ report.validation_status \in {"needs-review", "rejected"}
              /\ report.validation_status = result.body.validation_status
              /\ report.confidence_score \in {0, 100}
              /\ \E tail \in {"", " Location matches known environmental concern area."} :
                    report.validation_reason =
                       "Low AI confidence. Visual conditions unclear or ambiguous."
                       \o tail

\* a submission whose scoring result has no confidence was rejected
C14_Witness ==
    /\ GotSubmit
    /\ reports[result.body.report_id].yolo_result.present
    /\ ~reports[result.body.report_id].yolo_result.has_confidence
    /\ result.body.validation_status = "rejected"

\* the fields of a record that a status query leaves alone
FixedFields(report) ==
    <<report.report_id, report.category, report.latitude, report.longitude,
      report.location_name, report.yolo_result, report.submitted_at,
      report.validation_reason, report.confidence_score>>

\* a status query changes no record but the one queried, and of that one
\* at most the status, the reward and the verification timestamp
StatusQueryFrame ==
    /\ DOMAIN reports' = DOMAIN reports
    /\ \A id \in DOMAIN reports :
          /\ FixedFields(reports'[id]) = FixedFields(reports[id])
          /\ reports'[id] # reports[id] =>
                result'.op = "get_status" /\ result'.arg = id

\* a submission adds one record and changes no record there was
SubmissionFrame ==
    /\ Cardinality(DOMAIN reports') = Cardinality(DOMAIN reports) + 1
    /\ \A id \in DOMAIN reports :
          id \in DOMAIN reports' /\ reports'[id] = reports[id]

\* C15: a status query changes at most the status, reward and verification
\* timestamp of the record queried, and a submission adds one record and
\* changes no field of an existing one.
C15_LifecycleFrame ==
    [][IF issued' = issued THEN StatusQueryFrame ELSE SubmissionFrame]_vars

\* the part of C15 about status queries
StatusQueriesKeepFrame ==
    [][issued' = issued => StatusQueryFrame]_vars

\* C12: when several callers query one validating report at the same time,
\* its status is resolved exactly once and every caller is answered the
\* status that is stored in the end.
C12_OneResolution ==
    /\ \A id \in DOMAIN resolutions : resolutions[id] <= 1
    /\ \A c \in Callers :
          (callers[c].phase = "done" /\ callers[c].target \in DOMAIN reports) =>
             /\ callers[c].observed = reports[callers[c].target].validation_status
             /\ callers[c].observed = "verified" =>
                   /\ callers[c].target \in DOMAIN resolutions
                   /\ resolutions[callers[c].target] = 1

\* two callers had their queries for one validating report pending together
\* and both were answered
C12_Witness ==
    /\ overlap
    /\ \A c \in Callers : callers[c].phase = "done"
    /\ callers[1].target = callers[2].target
    /\ callers[1].observed = "verified"
    /\ callers[2].observed = "verified"
    /\ resolutions[callers[1].target] = 1

----------------------------------------------------------------------------
(* Properties of the AQI simulator *)

\* the response of an AQI request that succeeded
AqiOk(op) == aqi.op = op /\ aqi.status_code = 200

\* C16: every AQI value of a current reading, of a history and of the list
\* of all cities lies in 0..500, whatever the city, the time and the noise.
C16_AqiWithinRange ==
    /\ AqiOk("current") => aqi.body.aqi \in 0..500
    /\ AqiOk("history") =>
          \A i \in DOMAIN aqi.body : aqi.body[i].aqi \in 0..500
    /\ AqiOk("cities") =>
          \A i \in DOMAIN aqi.body : aqi.body[i].aqi \in 0..500

\* one list of all cities holds a value cut at 500 and a value cut at 0
C16_Witness ==
    /\ AqiOk("cities")
    /\ \E i \in DOMAIN aqi.body : aqi.body[i].aqi = 500
    /\ \E i \in DOMAIN aqi.body : aqi.body[i].aqi = 0

\* C17: the list of all cities holds every configured city once, in
\* descending order of AQI, cities of equal AQI in the order of self.cities.
C17_AllCitiesSorted ==
    aqi.op = "cities" =>
       /\ aqi.status_code = 200
       /\ Len(aqi.body) = Len(cities)
       /\ {aqi.body[i].name : i \in DOMAIN aqi.body} = CityNames
       /\ \A i \in DOMAIN aqi.body : \A j \in DOMAIN aqi.body :
             i < j =>
                /\ aqi.body[i].aqi >= aqi.body[j].aqi
                /\ aqi.body[i].aqi = aqi.body[j].aqi =>
                      CityIndex(aqi.body[i].name) < CityIndex(aqi.body[j].name)

\* two cities of the list have the same AQI below the upper end of the range
C17_Witness ==
    /\ AqiOk("cities")
    /\ \E i \in 1..(Len(aqi.body) - 1) :
          /\ aqi.body[i].aqi = aqi.body[i + 1].aqi
          /\ aqi.body[i].aqi \in 1..499
          /\ CityIndex(aqi.body[i].name) < CityIndex(aqi.body[i + 1].name)

\* C18: for a configured city the 24h history has 25 points, from 24 hours
\* ago to now, and the 7d history has 8 points, from 7 days ago to today.
C18_HistoryPoints ==
    (aqi.op = "history" /\ aqi.args[1] \in CityNames) =>
       /\ aqi.args[2] = "24h" =>
             /\ aqi.status_code = 200
             /\ Len(aqi.body) = 25
             /\ \A i \in 1..Len(aqi.body) :
                   aqi.body[i].time = (clock - (25 - i)) % 24
       /\ aqi.args[2] = "7d" =>
             /\ aqi.status_code = 200
             /\ Len(aqi.body) = 8
             /\ \A i \in 1..Len(aqi.body) :
                   aqi.body[i].time = (clock \div 24) - (8 - i)

\* a 24h history asked at midnight: its first and its last point carry the
\* same time of day
C18_Witness ==
    /\ AqiOk("history")
    /\ aqi.args[2] = "24h"
    /\ Len(aqi.body) = 25
    /\ aqi.body[1].time = 0
    /\ aqi.body[25].time = 0

\* C19: a current reading, a history and the insights of a city that is not
\* configured, and a history of a range other than 24h and 7d, are answered
\* 404 with the detail of the error and no data.
C19_LookupNotFound ==
    aqi.op \in {"current", "history", "insights"} =>
       /\ aqi.args[1] \notin CityNames =>
             /\ aqi.status_code = 404
             /\ aqi.body = [detail |-> "City not found"]
       /\ (/\ aqi.op = "history"
           /\ aqi.args[1] \in CityNames
           /\ aqi.args[2] \notin {"24h", "7d"}) =>
             /\ aqi.status_code = 404
             /\ aqi.body = [detail |-> "Invalid time range"]

\* history("Delhi", "30m")
C19_Witness ==
    /\ aqi.op = "history"
    /\ aqi.args = <<"Delhi", "30m">>
    /\ aqi.status_code = 404
    /\ aqi.body = [detail |-> "Invalid time range"]

\* the categories from the best to the worst, and the highest AQI of each
\* but the last
severity_order == <<"good", "moderate", "unhealthy-sensitive", "unhealthy",
                    "very-unhealthy", "hazardous">>
breakpoints == <<5000, 10000, 15000, 20000, 30000>>

SeverityRank(s) == CHOOSE r \in DOMAIN severity_order : severity_order[r] = s

\* C20: of two AQI values the smaller never has the higher category, and
\* 50, 100, 150, 200 and 300 are each the last value of their category.
C20_SeverityMonotonic ==
    aqi.op = "severity" =>
       LET a == aqi.args[1]
           b == aqi.args[2]
           sa == aqi.body[1]
           sb == aqi.body[2]
       IN  /\ sa \in {severity_order[r] : r \in DOMAIN severity_order}
           /\ a < b => SeverityRank(sa) <= SeverityRank(sb)
           /\ \A k \in DOMAIN breakpoints :
                 /\ a = breakpoints[k] => sa = severity_order[k]
                 /\ a = breakpoints[k] + 1 => sa = severity_order[k + 1]

\* 50 is good, the next value is moderate
C20_Witness ==
    /\ aqi.op = "severity"
    /\ aqi.args = <<5000, 5001>>
    /\ aqi.body = <<"good", "moderate">>

----------------------------------------------------------------------------
(* Properties of the resolution and of the stored record *)

\* C21: a query that finds a record validating gives it verified from a
\* stored confidence of 0.75, verified or needs-review from 0.50 and below
\* 0.75, needs-review or rejected below 0.50, and stores what it returns.
C21_ResolutionBands ==
    result.op = "resolve" =>
       /\ result.arg >= 750 => result.status = "verified"
       /\ (result.arg >= 500 /\ result.arg < 750) =>
             result.status \in {"verified", "needs-review"}
       /\ result.arg < 500 => result.status \in {"needs-review", "rejected"}
       /\ result.stored = result.status

\* a record of confidence 0.74, one step below the high band, was resolved
\* to needs-review
C21_Witness ==
    /\ result.op = "resolve"
    /\ result.arg = 740
    /\ result.status = "needs-review"
    /\ result.stored = "needs-review"

\* the text the hotspot check appends to the reason
HotspotText == " Location matches known environmental concern area."

\* the record of the latest submission, its submitted confidence, and
\* whether its reason carries the hotspot text
Submitted == reports[result.body.report_id]
SubmittedConfidence == yolo_confidence_of(Submitted)
SubmittedBonus ==
    Submitted.validation_reason = reason_of(SubmittedConfidence) \o HotspotText

\* s is x rounded to two decimals (x is no tie)
IsRounded(s, x) == s % 10 = 0 /\ s - x \in -4..4

\* C22 as stated: the stored confidence is c without the hotspot and
\* min(1.0, c + 0.1) rounded to two decimals with it, never below c, never
\* above 1.0, and the hotspot text is in the reason exactly with the bonus.
C22_StoredConfidenceAsStated ==
    GotSubmit =>
       /\ Submitted.validation_reason \in
             {reason_of(SubmittedConfidence),
              reason_of(SubmittedConfidence) \o HotspotText}
       /\ ~SubmittedBonus => Submitted.confidence_score = SubmittedConfidence
       /\ SubmittedBonus =>
             IsRounded(Submitted.confidence_score,
                       Min(1000, SubmittedConfidence + 100))
       /\ Submitted.confidence_score >= SubmittedConfidence
       /\ Submitted.confidence_score <= 1000

\* C22 amended: the stored confidence is c rounded to two decimals without
\* the hotspot and min(1.0, c + 0.1) rounded to two decimals with it, at
\* most 0.005 below c, never above 1.0, and the hotspot text is in the
\* reason exactly with the bonus.
C22_StoredConfidenceRounded ==
    GotSubmit =>
       /\ Submitted.validation_reason \in
             {reason_of(SubmittedConfidence),
              reason_of(SubmittedConfidence) \o HotspotText}
       /\ ~SubmittedBonus =>
             IsRounded(Submitted.confidence_score, SubmittedConfidence)
       /\ SubmittedBonus =>
             IsRounded(Submitted.confidence_score,
                       Min(1000, SubmittedConfidence + 100))
       /\ Submitted.confidence_score >= SubmittedConfidence - 5
       /\ Submitted.confidence_score <= 1000

\* a confidence of 0.654 was submitted, the hotspot check did not trigger
\* and 0.65 is stored
C22_Witness ==
    /\ GotSubmit
    /\ SubmittedConfidence = 654
    /\ ~SubmittedBonus
    /\ Submitted.confidence_score = 650

\* every stored validating record has a confidence of 0.75 or more
ValidatingIsHigh(store) ==
    \A id \in DOMAIN store :
       store[id].validation_status = "validating" =>
          store[id].confidence_score >= 750

\* C23: a stored validating report has a stored confidence of 0.75 or more,
\* a status query on it makes it verified, and a status query changes no
\* stored status in another way: needs-review and rejected come from
\* submissions only.
C23_ValidatingIsHighBand ==
    [][/\ ValidatingIsHigh(reports)
       /\ ValidatingIsHigh(reports')
       /\ (issued' = issued /\ now' = now) =>
             \A id \in DOMAIN reports :
                /\ (/\ reports[id].validation_status = "validating"
                    /\ result'.op = "get_status"
                    /\ result'.arg = id) =>
                      /\ reports'[id].validation_status = "verified"
                      /\ result'.body.status = "verified"
                /\ reports'[id].validation_status # reports[id].validation_status =>
                      /\ reports[id].validation_status = "validating"
                      /\ reports'[id].validation_status = "verified"]_vars

\* a report stored with the lowest confidence of the high band was queried
\* and is verified
C23_Witness ==
    /\ GotStatus
    /\ result.body.status = "verified"
    /\ reports[result.arg].validation_status = "verified"
    /\ reports[result.arg].confidence_score = 750
    /\ reports[result.arg].verified_at = now

\* every stored record that is not verified has no verification time and
\* no reward
UnverifiedIsUnrewarded(store) ==
    \A id \in DOMAIN store :
       store[id].validation_status # "verified" =>
          /\ store[id].verified_at = NoneTime
          /\ store[id].reward_coins = 0

\* C24: a stored report that is not verified has verified_at None and
\* reward_coins 0, a submission never stores verified, and a report becomes
\* verified in a status query on it only.
C24_VerifiedOnlyByQuery ==
    [][/\ UnverifiedIsUnrewarded(reports)
       /\ UnverifiedIsUnrewarded(reports')
       /\ issued' # issued =>
             reports'[issued'[Len(issued')]].validation_status # "verified"
       /\ \A id \in DOMAIN reports' :
             (/\ reports'[id].validation_status = "verified"
              /\ (id \notin DOMAIN reports
                  \/ reports[id].validation_status # "verified")) =>
                /\ issued' = issued
                /\ result'.op = "get_status"
                /\ result'.arg = id]_vars

\* a rejected report was queried and has neither verification time nor reward
C24_Witness ==
    /\ GotStatus
    /\ result.body.status = "rejected"
    /\ result.body.reward_coins = 0
    /\ reports[result.arg].validation_status = "rejected"
    /\ reports[result.arg].verified_at = NoneTime
    /\ reports[result.arg].reward_coins = 0

\* the queue holds the identifiers of the stored needs-review records, each
\* once
QueueIsNeedsReview(queue, store) ==
    /\ {queue[i] : i \in 1..Len(queue)} =
          {id \in DOMAIN store : store[id].validation_status = "needs-review"}
    /\ \A i \in 1..Len(queue) : \A j \in 1..Len(queue) :
          i # j => queue[i] # queue[j]

\* a submission appends its identifier exactly when it stores needs-review,
\* every other step leaves the queue as it is
QueueStep ==
    /\ issued' # issued =>
          LET report_id == issued'[Len(issued')]
          IN  validation_queue' =
                 IF reports'[report_id].validation_status = "needs-review"
                 THEN Append(validation_queue, report_id)
                 ELSE validation_queue
    /\ issued' = issued => validation_queue' = validation_queue

\* C25: the validation queue holds exactly the identifiers of the stored
\* reports whose status is needs-review, each once; a submission appends its
\* identifier exactly when its initial status is needs-review and a status
\* query leaves the queue as it is.
C25_QueueIsNeedsReview ==
    [][/\ QueueIsNeedsReview(validation_queue, reports)
       /\ QueueIsNeedsReview(validation_queue', reports')
       /\ QueueStep]_vars

\* the steps change the queue as C25 says
QueueStepsAsClaimed == [][QueueStep]_vars

\* as long as no identifier was issued twice the queue is as C25 says
QueueOfDistinctIds ==
    Cardinality(IssuedIds) = Len(issued) =>
       QueueIsNeedsReview(validation_queue, reports)

====
